---------------------------- MODULE Spec2Model ----------------------------
(***************************************************************************)
(* Model of main.py: the per-URL transcript pipeline download_transcript,  *)
(* its helpers extract_video_id and get_video_title, and the batch loop of *)
(* main.  Python strings whose content the program inspects (URLs, page    *)
(* bodies, titles, file names) are sequences of one-character strings;     *)
(* strings the program only compares or passes on (format names, language  *)
(* codes) are TLA+ strings.                                                *)
(***************************************************************************)
EXTENDS Naturals, Sequences, FiniteSets

(***************************************************************************)
(* Bounds of the model.                                                    *)
(***************************************************************************)
\* longest batch of URLs handed to main
MaxUrls == 3

(***************************************************************************)
(* Python values.                                                          *)
(***************************************************************************)
\* Python's None: a value that is no character sequence
None == <<"<None>">>

\* truthiness test `not x` for a value that is a string or None
Falsy(x) == x = None \/ x = <<>>

(***************************************************************************)
(* String primitives.                                                      *)
(***************************************************************************)
\* the literal pat occurs in s starting at position i
MatchAt(s, i, pat) ==
    /\ i >= 1
    /\ i + Len(pat) - 1 <= Len(s)
    /\ \A k \in 1..Len(pat) : s[i + k - 1] = pat[k]

\* the character class [0-9A-Za-z_-]
IdAlphabet ==
    <<"0", "1", "2", "3", "4", "5", "6", "7", "8", "9", "A", "B", "C", "D",
      "E", "F", "G", "H", "I", "J", "K", "L", "M", "N", "O", "P", "Q", "R",
      "S", "T", "U", "V", "W", "X", "Y", "Z", "a", "b", "c", "d", "e", "f",
      "g", "h", "i", "j", "k", "l", "m", "n", "o", "p", "q", "r", "s", "t",
      "u", "v", "w", "x", "y", "z", "_", "-">>

IdChars == {IdAlphabet[k] : k \in 1..Len(IdAlphabet)}

\* the quantifier {11} of both identifier patterns
IdLen == 11

\* ([0-9A-Za-z_-]{11}) matches at position j of s
IsIdRun(s, j) ==
    /\ j >= 1
    /\ j + IdLen - 1 <= Len(s)
    /\ \A k \in j..(j + IdLen - 1) : s[k] \in IdChars

(***************************************************************************)
(* extract_video_id                                                        *)
(***************************************************************************)
\* re.search(r"(?:v=|\/)([0-9A-Za-z_-]{11})", url) tried from position i on:
\* group(1) of the leftmost match, the alternative v= tried before \/
\* SearchStandard without the alternative \/
RECURSIVE SearchStandardOnlyV(_, _)
SearchStandardOnlyV(url, i) ==
    IF i > Len(url) THEN None
    ELSE IF MatchAt(url, i, <<"v", "=">>) /\ IsIdRun(url, i + 2)
         THEN SubSeq(url, i + 2, i + 1 + IdLen)
    ELSE SearchStandardOnlyV(url, i + 1)

RECURSIVE SearchStandard(_, _)
SearchStandard(url, i) ==
    IF i > Len(url) THEN None
    ELSE IF MatchAt(url, i, <<"v", "=">>) /\ IsIdRun(url, i + 2)
         THEN SubSeq(url, i + 2, i + 1 + IdLen)
    ELSE IF url[i] = "/" /\ IsIdRun(url, i + 1)
         THEN SubSeq(url, i + 1, i + IdLen)
    ELSE SearchStandard(url, i + 1)

ShortLinkHost ==
    <<"y", "o", "u", "t", "u", ".", "b", "e", "/">>

\* SearchShort with any character accepted in place of the \/
RECURSIVE SearchShortAnySeparator(_, _)
SearchShortAnySeparator(url, i) ==
    IF i > Len(url) THEN None
    ELSE IF MatchAt(url, i, SubSeq(ShortLinkHost, 1, Len(ShortLinkHost) - 1))
               /\ IsIdRun(url, i + Len(ShortLinkHost))
         THEN SubSeq(url, i + Len(ShortLinkHost),
                     i + Len(ShortLinkHost) + IdLen - 1)
    ELSE SearchShortAnySeparator(url, i + 1)

\* re.search(r"youtu\.be\/([0-9A-Za-z_-]{11})", url) tried from position i on
RECURSIVE SearchShort(_, _)
SearchShort(url, i) ==
    IF i > Len(url) THEN None
    ELSE IF MatchAt(url, i, ShortLinkHost) /\ IsIdRun(url, i + Len(ShortLinkHost))
         THEN SubSeq(url, i + Len(ShortLinkHost),
                     i + Len(ShortLinkHost) + IdLen - 1)
    ELSE SearchShort(url, i + 1)

extract_video_id(url) ==
    LET standard == SearchStandard(url, 1)
        short == SearchShort(url, 1)
    IN  IF standard # None THEN standard
        ELSE IF short # None THEN short
        ELSE None

(***************************************************************************)
(* get_video_title                                                         *)
(***************************************************************************)
TitleOpen ==
    <<"<", "t", "i", "t", "l", "e", ">">>

TitleClose ==
    <<"<", "/", "t", "i", "t", "l", "e", ">">>

YouTubeSuffix ==
    <<" ", "-", " ", "Y", "o", "u", "T", "u", "b", "e">>

\* characters str.strip() removes
Whitespace == {" ", "\t", "\n", "\r"}

\* position of the first occurrence of pat in s at or after i, 0 if none
RECURSIVE Find(_, _, _)
Find(s, pat, i) ==
    IF i + Len(pat) - 1 > Len(s) THEN 0
    ELSE IF MatchAt(s, i, pat) THEN i
    ELSE Find(s, pat, i + 1)

\* re.search(r"<title>(.*?)</title>", html) tried from position i on:
\* group(1) of the leftmost match; `.` matches no newline, `*?` stops at the
\* first closing tag
RECURSIVE SearchTitle(_, _)
SearchTitle(html, i) ==
    LET open == Find(html, TitleOpen, i)
        from == open + Len(TitleOpen)
        close == Find(html, TitleClose, from)
    IN  IF open = 0 \/ close = 0 THEN None
        ELSE IF \A k \in from..(close - 1) : html[k] # "\n"
             THEN SubSeq(html, from, close - 1)
        ELSE SearchTitle(html, open + 1)

\* s.replace(old, ""): every non-overlapping occurrence, left to right
RECURSIVE Remove(_, _)
Remove(s, old) ==
    IF s = <<>> THEN <<>>
    ELSE IF MatchAt(s, 1, old) THEN Remove(SubSeq(s, Len(old) + 1, Len(s)), old)
    ELSE <<Head(s)>> \o Remove(Tail(s), old)

\* s.strip()
RECURSIVE Strip(_)
Strip(s) ==
    IF s = <<>> THEN <<>>
    ELSE IF Head(s) \in Whitespace THEN Strip(Tail(s))
    ELSE IF s[Len(s)] \in Whitespace THEN Strip(SubSeq(s, 1, Len(s) - 1))
    ELSE s

\* what urllib.request.urlopen(req) and response.read().decode("utf-8") can
\* do: raise (URLError for a network failure, HTTPError for an error status)
\* or deliver the page body
ResponseErrors == {"URLError", "HTTPError"}

\* get_video_title on the outcome of the page fetch: the value returned and
\* the messages printed
get_video_title(response) ==
    IF response.raises # "no"
    THEN [ret |-> None,
          out |-> <<[msg |-> "Error getting video title",
                     args |-> [e |-> response.raises]]>>]
    ELSE LET match == SearchTitle(response.html, 1)
         IN  IF match # None
             THEN [ret |-> Strip(Remove(match, YouTubeSuffix)), out |-> <<>>]
             ELSE [ret |-> None, out |-> <<>>]

(***************************************************************************)
(* File name and path                                                      *)
(***************************************************************************)
\* the character class [\\/*?:"<>|] of the two re.sub calls
UnsafeCharsSeq ==
    <<"\\", "/", "*", "?", ":", "\"", "<", ">", "|">>

UnsafeChars == {UnsafeCharsSeq[k] : k \in 1..Len(UnsafeCharsSeq)}

\* Sanitize with the path separator left in
SanitizeKeepsSlash(s) == SelectSeq(s, LAMBDA c : c \notin UnsafeChars \ {"/"})

\* re.sub(r'[\\/*?:"<>|]', "", s)
Sanitize(s) == SelectSeq(s, LAMBDA c : c \notin UnsafeChars)

\* the extension strings of the three formatter branches
ExtJson == <<"j", "s", "o", "n">>

ExtTxt == <<"t", "x", "t">>

ExtSrt == <<"s", "r", "t">>

\* Filename without the identifier
FilenameTitleOnly(video_title, video_id, output_extension) ==
    Sanitize(video_title) \o <<".">> \o output_extension

\* f"{sanitized_title} - {sanitized_id}.{output_extension}"
Filename(video_title, video_id, output_extension) ==
    Sanitize(video_title) \o <<" ", "-", " ">> \o Sanitize(video_id)
        \o <<".">> \o output_extension

\* os.path.join(a, b) on POSIX
os_path_join(a, b) ==
    IF b # <<>> /\ Head(b) = "/" THEN b
    ELSE IF a = <<>> \/ a[Len(a)] = "/" THEN a \o b
    ELSE a \o <<"/">> \o b

\* str.lower() on the format names the model feeds in
Lower(s) ==
    CASE s = "JSON" -> "json"
      [] s = "Srt" -> "srt"
      [] OTHER -> s

(***************************************************************************)
(* Inputs                                                                  *)
(***************************************************************************)
\* https://www.youtube.com/watch?v=dQw4w9WgXcQ
UrlWatch ==
    <<"h", "t", "t", "p", "s", ":", "/", "/", "w", "w", "w", ".", "y", "o",
      "u", "t", "u", "b", "e", ".", "c", "o", "m", "/", "w", "a", "t", "c",
      "h", "?", "v", "=", "d", "Q", "w", "4", "w", "9", "W", "g", "X", "c",
      "Q">>

\* https://youtu.be/abc12345678
UrlShort2 ==
    <<"h", "t", "t", "p", "s", ":", "/", "/", "y", "o", "u", "t", "u", ".",
      "b", "e", "/", "a", "b", "c", "1", "2", "3", "4", "5", "6", "7", "8">>

\* https://example.com/video
UrlNoMatch ==
    <<"h", "t", "t", "p", "s", ":", "/", "/", "e", "x", "a", "m", "p", "l",
      "e", ".", "c", "o", "m", "/", "v", "i", "d", "e", "o">>

\* the URLs a batch is made of
Urls == {UrlWatch, UrlShort2, UrlNoMatch}

\* args.urls: one or more URLs (nargs="+"), repetitions allowed
Batches == UNION {[1..n -> Urls] : n \in 1..MaxUrls}

\* pieces of the URLs handed to a single call
\* https://www.youtube.com/watch?
PrefWatch ==
    <<"h", "t", "t", "p", "s", ":", "/", "/", "w", "w", "w", ".", "y", "o",
      "u", "t", "u", "b", "e", ".", "c", "o", "m", "/", "w", "a", "t", "c",
      "h", "?">>

\* https://youtu.be
PrefShort ==
    <<"h", "t", "t", "p", "s", ":", "/", "/", "y", "o", "u", "t", "u", ".",
      "b", "e">>

\* https://www.youtube.com/embed
PrefEmbed ==
    <<"h", "t", "t", "p", "s", ":", "/", "/", "w", "w", "w", ".", "y", "o",
      "u", "t", "u", "b", "e", ".", "c", "o", "m", "/", "e", "m", "b", "e",
      "d">>

\* https://www.youtube.com/attribution_link?u=
PrefAttr ==
    <<"h", "t", "t", "p", "s", ":", "/", "/", "w", "w", "w", ".", "y", "o",
      "u", "t", "u", "b", "e", ".", "c", "o", "m", "/", "a", "t", "t", "r",
      "i", "b", "u", "t", "i", "o", "n", "_", "l", "i", "n", "k", "?", "u",
      "=">>

UrlPrefixes == {PrefWatch, PrefShort, PrefEmbed, PrefAttr}

UrlSeparators == {<<"v", "=">>, <<"/">>, <<"?">>}

\* dQw4w9WgXcQ
TokA ==
    <<"d", "Q", "w", "4", "w", "9", "W", "g", "X", "c", "Q">>

\* abcdefghijk
TokB ==
    <<"a", "b", "c", "d", "e", "f", "g", "h", "i", "j", "k">>

\* abc_-678
TokShort ==
    <<"a", "b", "c", "_", "-", "6", "7", "8">>

\* dQw4w9WgXcQZ
TokLong ==
    <<"d", "Q", "w", "4", "w", "9", "W", "g", "X", "c", "Q", "Z">>

\* dQw4w.WgXcQ
TokBad ==
    <<"d", "Q", "w", "4", "w", ".", "W", "g", "X", "c", "Q">>

\* abc12345678
TokC ==
    <<"a", "b", "c", "1", "2", "3", "4", "5", "6", "7", "8">>

UrlTokens == {TokA, TokB, TokC, TokShort, TokLong, TokBad}

\* &t=10s
SufTime ==
    <<"&", "t", "=", "1", "0", "s">>

\* /v=ABCDEFGHIJK
SufSecond ==
    <<"/", "v", "=", "A", "B", "C", "D", "E", "F", "G", "H", "I", "J", "K">>

UrlSuffixes == {<<>>, SufTime, SufSecond}

\* the URLs handed to a single call
UrlInputs ==
    {p \o s \o t \o x :
        p \in UrlPrefixes, s \in UrlSeparators, t \in UrlTokens,
        x \in UrlSuffixes}

\* default of --output-dir
OutputDir ==
    <<"t", "r", "a", "n", "s", "c", "r", "i", "p", "t", "s">>

\* language codes handed to --language
Languages == {"en", "de"}

\* default of --language
DefaultLanguage == "en"

\* choices of --format
FormatChoices == {"json", "text", "srt", "vtt"}

\* values of output_format: the choices main passes on, and values only a
\* direct call of download_transcript can carry
FormatInputs == FormatChoices \cup {"JSON", "xml"}

\* page bodies the watch page can deliver
\* <html><title>My:Video? - YouTube</title></html>
HtmlMyVideo ==
    <<"<", "h", "t", "m", "l", ">", "<", "t", "i", "t", "l", "e", ">", "M",
      "y", ":", "V", "i", "d", "e", "o", "?", " ", "-", " ", "Y", "o", "u",
      "T", "u", "b", "e", "<", "/", "t", "i", "t", "l", "e", ">", "<", "/",
      "h", "t", "m", "l", ">">>

\* <title> - YouTube</title>
HtmlEmptyTitle ==
    <<"<", "t", "i", "t", "l", "e", ">", " ", "-", " ", "Y", "o", "u", "T",
      "u", "b", "e", "<", "/", "t", "i", "t", "l", "e", ">">>

\* <html><body></body></html>
HtmlNoTitle ==
    <<"<", "h", "t", "m", "l", ">", "<", "b", "o", "d", "y", ">", "<", "/",
      "b", "o", "d", "y", ">", "<", "/", "h", "t", "m", "l", ">">>

\* <title>a/b</title>
HtmlPlain ==
    <<"<", "t", "i", "t", "l", "e", ">", "a", "/", "b", "<", "/", "t", "i",
      "t", "l", "e", ">">>

\* <title>  </title>
HtmlBlank ==
    <<"<", "t", "i", "t", "l", "e", ">", " ", " ", "<", "/", "t", "i", "t",
      "l", "e", ">">>

\* <title>My - YouTube Tips - YouTube</title>
HtmlInner ==
    <<"<", "t", "i", "t", "l", "e", ">", "M", "y", " ", "-", " ", "Y", "o",
      "u", "T", "u", "b", "e", " ", "T", "i", "p", "s", " ", "-", " ", "Y",
      "o", "u", "T", "u", "b", "e", "<", "/", "t", "i", "t", "l", "e", ">">>

\* the page bodies handed to a single call
Htmls ==
    {HtmlMyVideo, HtmlEmptyTitle, HtmlNoTitle, HtmlPlain, HtmlBlank, HtmlInner}

\* the page bodies of a batch
BatchHtmls == {HtmlMyVideo, HtmlNoTitle}

\* outcomes of the page fetch, the site delivering one of the bodies htmls
Responses(htmls) ==
    {[raises |-> e, html |-> <<>>] : e \in ResponseErrors}
        \cup {[raises |-> "no", html |-> h] : h \in htmls}

\* outcomes of YouTubeTranscriptApi.get_transcript
TranscriptOutcomes ==
    {"ok", "TranscriptsDisabled", "NoTranscriptFound", "Exception"}

\* outcomes of os.makedirs, open and f.write
WriteOutcomes == {"ok", "makedirs_error", "open_error", "write_error"}

(***************************************************************************)
(* State                                                                   *)
(***************************************************************************)
VARIABLES
    pages,              \* page bodies the site can deliver
    urls,               \* args.urls
    language,           \* args.language
    output_format,      \* args.format
    i,                  \* number of the URL the loop of main is at, 0 before
    main_done,          \* main has returned
    pc,                 \* step of the call of download_transcript in progress
    video_id,           \* locals of that call
    response,
    video_title,
    transcript,
    formatter,
    output_extension,
    out,                \* messages that call has printed
    results,            \* values returned by the calls made so far
    failures,           \* terminal failure messages printed so far
    calls,              \* calls of download_transcript, per URL number
    title_fetches,      \* urlopen calls, per URL number
    transcript_fetches, \* get_transcript calls, per URL number
    dir_exists,         \* output_dir exists
    files               \* files in output_dir: path -> content

vars ==
    <<pages, urls, language, output_format, i, main_done, pc, video_id,
      response, video_title, transcript, formatter, output_extension, out,
      results, failures, calls, title_fetches, transcript_fetches,
      dir_exists, files>>

locals ==
    <<video_id, response, video_title, transcript, formatter,
      output_extension>>

args == <<pages, urls, language, output_format>>

filesystem == <<dir_exists, files>>

counters == <<calls, title_fetches, transcript_fetches>>

\* steps of download_transcript at which the call has returned
FailureStates == {"no_id", "no_transcript", "bad_format", "write_error"}

TerminalStates == FailureStates \cup {"written"}

\* the page fetch has not happened
NoResponse == [raises |-> "unset", html |-> <<>>]

\* the cue list get_transcript(video_id, languages=[language]) delivers
Transcript(id, lang) == <<[video_id |-> id, language |-> lang]>>

\* the state when main enters its loop
Start ==
    /\ output_format \in FormatInputs
    /\ i = 0
    /\ main_done = FALSE
    /\ pc = "idle"
    /\ video_id = None
    /\ response = NoResponse
    /\ video_title = None
    /\ transcript = <<>>
    /\ formatter = ""
    /\ output_extension = <<>>
    /\ out = <<>>
    /\ results = <<>>
    /\ failures = 0
    /\ calls = [k \in 1..Len(urls) |-> 0]
    /\ title_fetches = [k \in 1..Len(urls) |-> 0]
    /\ transcript_fetches = [k \in 1..Len(urls) |-> 0]
    /\ dir_exists \in BOOLEAN
    /\ files = <<>>

\* main handed a batch of URLs, the language left at its default
Init ==
    /\ urls \in Batches
    /\ pages = BatchHtmls
    /\ language = DefaultLanguage
    /\ Start

\* a single URL, drawn from the larger sets of URLs and page bodies
InitSingle ==
    /\ urls \in {<<u>> : u \in UrlInputs}
    /\ pages = Htmls
    /\ language \in Languages
    /\ Start

(***************************************************************************)
(* main: for url in args.urls: download_transcript(url, ...)               *)
(***************************************************************************)
\* MainLoop leaving the loop at the first failed URL
MainLoopStopsOnFailure ==
    /\ ~main_done
    /\ pc \in {"idle"} \cup TerminalStates
    /\ IF i < Len(urls) /\ pc \notin FailureStates
       THEN /\ i' = i + 1
            /\ calls' = [calls EXCEPT ![i + 1] = @ + 1]
            /\ pc' = "start"
            /\ video_id' = None
            /\ response' = NoResponse
            /\ video_title' = None
            /\ transcript' = <<>>
            /\ formatter' = ""
            /\ output_extension' = <<>>
            /\ out' = <<>>
            /\ UNCHANGED main_done
       ELSE /\ main_done' = TRUE
            /\ UNCHANGED <<i, calls, pc, locals, out>>
    /\ UNCHANGED <<args, results, failures, title_fetches,
                   transcript_fetches, filesystem>>

MainLoop ==
    /\ ~main_done
    /\ pc \in {"idle"} \cup TerminalStates
    /\ IF i < Len(urls)
       THEN /\ i' = i + 1
            /\ calls' = [calls EXCEPT ![i + 1] = @ + 1]
            /\ pc' = "start"
            /\ video_id' = None
            /\ response' = NoResponse
            /\ video_title' = None
            /\ transcript' = <<>>
            /\ formatter' = ""
            /\ output_extension' = <<>>
            /\ out' = <<>>
            /\ UNCHANGED main_done
       ELSE /\ main_done' = TRUE
            /\ UNCHANGED <<i, calls, pc, locals, out>>
    /\ UNCHANGED <<args, results, failures, title_fetches,
                   transcript_fetches, filesystem>>

(***************************************************************************)
(* download_transcript                                                     *)
(***************************************************************************)
\* a `return None` after printing the failure message m
ReturnNone(state, m) ==
    /\ pc' = state
    /\ out' = Append(out, m)
    /\ results' = Append(results, None)
    /\ failures' = failures + 1

\* ExtractId without the early return
ExtractIdNoReturn ==
    /\ pc = "start"
    /\ video_id' = extract_video_id(urls[i])
    /\ pc' = "id_extracted"
    /\ UNCHANGED <<args, i, main_done, response, video_title, transcript,
                   formatter, output_extension, out, results, failures,
                   counters, filesystem>>

\* video_id = extract_video_id(youtube_url); if not video_id: return None
ExtractId ==
    /\ pc = "start"
    /\ LET id == extract_video_id(urls[i])
       IN  IF Falsy(id)
           THEN /\ ReturnNone("no_id",
                       [msg |-> "Could not extract video ID from URL",
                        args |-> [youtube_url |-> urls[i]]])
                /\ UNCHANGED video_id
           ELSE /\ video_id' = id
                /\ pc' = "id_extracted"
                /\ UNCHANGED <<out, results, failures>>
    /\ UNCHANGED <<args, i, main_done, response, video_title, transcript,
                   formatter, output_extension, counters, filesystem>>

\* TitleOrFallback without the fallback
TitleAsReturned(title, id) == title

\* the title used for the file name, given what get_video_title returned
TitleOrFallback(title, id) == IF Falsy(title) THEN id ELSE title

\* video_title = get_video_title(video_id), falling back to video_id
ResolveTitle ==
    /\ pc = "id_extracted"
    /\ \E r \in Responses(pages) :
          LET t == get_video_title(r)
          IN  /\ response' = r
              /\ video_title' = TitleOrFallback(t.ret, video_id)
              /\ out' = out \o t.out \o
                    (IF Falsy(t.ret)
                     THEN <<[msg |-> "Could not retrieve video title for ID",
                             args |-> [video_id |-> video_id]]>>
                     ELSE <<>>)
    /\ title_fetches' = [title_fetches EXCEPT ![i] = @ + 1]
    /\ pc' = "title_resolved"
    /\ UNCHANGED <<args, i, main_done, video_id, transcript, formatter,
                   output_extension, results, failures, calls,
                   transcript_fetches, filesystem>>

\* the message printed for each exception get_transcript raises
TranscriptReport(outcome, id, lang) ==
    CASE outcome = "TranscriptsDisabled" ->
            [msg |-> "Transcripts are disabled for video ID",
             args |-> [video_id |-> id]]
      [] outcome = "NoTranscriptFound" ->
            [msg |-> "No transcript found for video ID in language",
             args |-> [video_id |-> id, language |-> lang]]
      [] OTHER ->
            [msg |-> "An unexpected error occurred getting the transcript",
             args |-> [e |-> outcome]]

\* GetTranscript calling again after an unexpected error
GetTranscriptRetries ==
    /\ pc = "title_resolved"
    /\ transcript_fetches' = [transcript_fetches EXCEPT ![i] = @ + 1]
    /\ \E outcome \in TranscriptOutcomes :
          IF outcome = "ok"
          THEN /\ transcript' = Transcript(video_id, language)
               /\ pc' = "transcript_fetched"
               /\ UNCHANGED <<out, results, failures>>
          ELSE IF outcome = "Exception" /\ transcript_fetches[i] = 0
          THEN UNCHANGED <<pc, transcript, out, results, failures>>
          ELSE /\ ReturnNone("no_transcript",
                      TranscriptReport(outcome, video_id, language))
               /\ UNCHANGED transcript
    /\ UNCHANGED <<args, i, main_done, video_id, response, video_title,
                   formatter, output_extension, calls, title_fetches,
                   filesystem>>

\* transcript = YouTubeTranscriptApi.get_transcript(video_id, [language])
GetTranscript ==
    /\ pc = "title_resolved"
    /\ transcript_fetches' = [transcript_fetches EXCEPT ![i] = @ + 1]
    /\ \E outcome \in TranscriptOutcomes :
          IF outcome = "ok"
          THEN /\ transcript' = Transcript(video_id, language)
               /\ pc' = "transcript_fetched"
               /\ UNCHANGED <<out, results, failures>>
          ELSE /\ ReturnNone("no_transcript",
                      TranscriptReport(outcome, video_id, language))
               /\ UNCHANGED transcript
    /\ UNCHANGED <<args, i, main_done, video_id, response, video_title,
                   formatter, output_extension, calls, title_fetches,
                   filesystem>>

\* the if/elif chain on output_format.lower(); formatter "" is the else branch
SelectFormatter(fmt) ==
    CASE Lower(fmt) = "json" ->
            [formatter |-> "JSONFormatter", output_extension |-> ExtJson]
      [] Lower(fmt) = "text" ->
            [formatter |-> "TextFormatter", output_extension |-> ExtTxt]
      [] Lower(fmt) = "srt" ->
            [formatter |-> "SRTFormatter", output_extension |-> ExtSrt]
      [] OTHER ->
            [formatter |-> "", output_extension |-> <<>>]

\* os.path.join(output_dir, filename) of the call in progress
OutputPath ==
    os_path_join(OutputDir, Filename(video_title, video_id, output_extension))

\* OuterHandler returning the path although the write failed
OuterHandlerReturnsPath(e) ==
    /\ pc' = "write_error"
    /\ out' = Append(out, [msg |-> "An error occurred", args |-> [e |-> e]])
    /\ results' = Append(results, OutputPath)
    /\ failures' = failures + 1

\* the message and return of the outer `except Exception as e`
OuterHandler(e) ==
    ReturnNone("write_error", [msg |-> "An error occurred", args |-> [e |-> e]])

\* FormatTranscript with os.makedirs moved ahead of the format selection
FormatTranscriptMakesDir ==
    /\ pc = "transcript_fetched"
    /\ dir_exists' = TRUE
    /\ LET sel == SelectFormatter(output_format)
       IN  IF sel.formatter = ""
           THEN /\ ReturnNone("bad_format",
                       [msg |-> "Invalid output format",
                        args |-> [output_format |-> output_format]])
                /\ UNCHANGED <<formatter, output_extension>>
           ELSE /\ formatter' = sel.formatter
                /\ output_extension' = sel.output_extension
                /\ \E raises \in BOOLEAN :
                      IF raises
                      THEN OuterHandler("format_transcript")
                      ELSE /\ pc' = "formatted"
                           /\ UNCHANGED <<out, results, failures>>
    /\ UNCHANGED <<args, i, main_done, video_id, response, video_title,
                   transcript, counters, files>>

\* formatter selection and formatted_transcript = format_transcript(...)
FormatTranscript ==
    /\ pc = "transcript_fetched"
    /\ LET sel == SelectFormatter(output_format)
       IN  IF sel.formatter = ""
           THEN /\ ReturnNone("bad_format",
                       [msg |-> "Invalid output format",
                        args |-> [output_format |-> output_format]])
                /\ UNCHANGED <<formatter, output_extension>>
           ELSE /\ formatter' = sel.formatter
                /\ output_extension' = sel.output_extension
                /\ \E raises \in BOOLEAN :
                      IF raises
                      THEN OuterHandler("format_transcript")
                      ELSE /\ pc' = "formatted"
                           /\ UNCHANGED <<out, results, failures>>
    /\ UNCHANGED <<args, i, main_done, video_id, response, video_title,
                   transcript, counters, filesystem>>

\* f with key k set to v
Put(f, k, v) == [x \in DOMAIN f \cup {k} |-> IF x = k THEN v ELSE f[x]]

\* os.makedirs(output_dir, exist_ok=True); open(output_path, "w"); f.write
WriteFile ==
    /\ pc = "formatted"
    /\ \E w \in WriteOutcomes :
          /\ dir_exists' = (dir_exists \/ w # "makedirs_error")
          /\ files' =
                IF w \in {"ok", "write_error"}
                THEN Put(files, OutputPath,
                         [formatter |-> formatter, transcript |-> transcript,
                          complete |-> (w = "ok")])
                ELSE files
          /\ IF w = "ok"
             THEN /\ pc' = "written"
                  /\ out' = Append(out,
                         [msg |-> "Transcript downloaded successfully to",
                          args |-> [output_path |-> OutputPath]])
                  /\ results' = Append(results, OutputPath)
                  /\ UNCHANGED failures
             ELSE OuterHandler(w)
    /\ UNCHANGED <<args, i, main_done, locals, counters>>

Next ==
    \/ MainLoop
    \/ ExtractId
    \/ ResolveTitle
    \/ GetTranscript
    \/ FormatTranscript
    \/ WriteFile

Spec == Init /\ [][Next]_vars

SpecSingle == InitSingle /\ [][Next]_vars

(***************************************************************************)
(* Properties                                                              *)
(***************************************************************************)
\* C1: a call whose output_format is no supported value ends in the
\* bad-format failure, and neither the title page fetch nor get_transcript
\* has been invoked for it.
C1_InvalidFormatBeforeNetwork ==
    (i >= 1 /\ Lower(output_format) \notin FormatChoices) =>
        /\ title_fetches[i] = 0
        /\ transcript_fetches[i] = 0
        /\ (pc \in TerminalStates => pc = "bad_format")

\* C2: main calls download_transcript exactly once per URL, in list order,
\* every call returns a value (a path or None) to the loop, and a batch of
\* three URLs whose second has no identifier and whose first and third
\* succeed ends with both files written and one reported failure.
C2_BatchIsolated ==
    /\ \A k \in 1..Len(urls) : calls[k] = (IF k <= i THEN 1 ELSE 0)
    /\ Len(results) = (IF pc \in TerminalStates THEN i
                       ELSE IF i = 0 THEN 0 ELSE i - 1)
    /\ main_done =>
          /\ i = Len(urls)
          /\ Len(results) = Len(urls)
          /\ \A k \in 1..Len(urls) : urls[k] = UrlNoMatch => results[k] = None
          /\ (Len(urls) = 3 /\ urls[2] = UrlNoMatch
                /\ results[1] # None /\ results[3] # None) =>
                /\ failures = 1
                /\ results[2] = None
                /\ \A k \in {1, 3} :
                      /\ results[k] \in DOMAIN files
                      /\ files[results[k]].complete

C2_Witness ==
    /\ main_done
    /\ Len(urls) = 3
    /\ urls[2] = UrlNoMatch
    /\ results[1] # None
    /\ results[2] = None
    /\ results[3] # None
    /\ failures = 1

\* the title lookups that deliver no title: a network error, an error
\* status, a page without title element, a title that is empty once stripped
FailedLookup(r) ==
    \/ r.raises \in {"URLError", "HTTPError"}
    \/ r.raises = "no" /\ r.html \in {HtmlNoTitle, HtmlEmptyTitle, HtmlBlank}

\* "<output_dir>/<id> - <id>.<ext>"
IdIdPath(id, ext) ==
    OutputDir \o <<"/">> \o id \o <<" ", "-", " ">> \o id \o <<".">> \o ext

\* C3: after a failed title lookup the title is the video identifier, the
\* step after the title lookup is always the transcript retrieval, and a
\* run that then succeeds writes "<id> - <id>.<ext>".
C3_TitleNeverTerminates ==
    /\ [](FailedLookup(response) =>
            /\ video_title = video_id
            /\ pc = "written" =>
                  /\ results[i] = IdIdPath(video_id, output_extension)
                  /\ results[i] \in DOMAIN files
                  /\ files[results[i]].complete)
    /\ [][pc = "id_extracted" => pc' = "title_resolved"]_vars
    /\ [][pc = "title_resolved" =>
            /\ transcript_fetches'[i] = transcript_fetches[i] + 1
            /\ pc' \in {"transcript_fetched", "no_transcript"}]_vars

C3_Witness ==
    /\ response.raises = "URLError"
    /\ pc = "written"
    /\ results[i] = IdIdPath(video_id, output_extension)

\* positions of url at which 11 identifier characters follow "v=" or "/"
TokenStarts(url) ==
    {j \in 1..Len(url) :
        /\ IsIdRun(url, j)
        /\ \/ j > 1 /\ url[j - 1] = "/"
           \/ j > 2 /\ url[j - 2] = "v" /\ url[j - 1] = "="}

\* positions of url at which 11 identifier characters follow "youtu.be/"
ShortStarts(url) ==
    {j \in 1..Len(url) :
        IsIdRun(url, j) /\ MatchAt(url, j - Len(ShortLinkHost), ShortLinkHost)}

\* C4: for a URL that neither pattern matches, download_transcript returns
\* None with no video identifier and without a title page fetch or a
\* transcript retrieval.
C4_NoIdNoNetwork ==
    \A k \in 1..i :
        (TokenStarts(urls[k]) = {} /\ ShortStarts(urls[k]) = {}
            /\ (k < i \/ pc # "start")) =>
            /\ k <= Len(results)
            /\ results[k] = None
            /\ title_fetches[k] = 0
            /\ transcript_fetches[k] = 0
            /\ k = i => (pc = "no_id" /\ video_id = None)

C4_Witness ==
    /\ i = 1
    /\ pc = "no_id"
    /\ TokenStarts(urls[1]) = {}
    /\ results = <<None>>
    /\ failures = 1

\* the 11-character tokens of url preceded by "v=" or "/"
Tokens(url) == {SubSeq(url, j, j + IdLen - 1) : j \in TokenStarts(url)}

\* the token at the least position
LeftmostToken(url) ==
    LET starts == TokenStarts(url)
        j == CHOOSE j \in starts : \A k \in starts : j <= k
    IN  SubSeq(url, j, j + IdLen - 1)

\* https://youtu.be/abcdefghijk
UrlShortExample == PrefShort \o <<"/">> \o TokB

\* extract_video_id has just returned: video_id holds its result
Extracted == pc \in {"id_extracted", "no_id"}

\* C5 as stated: every 11-character token of the URL preceded by "v=" or "/"
\* is the value extract_video_id returns.
C5_EveryTokenReturned ==
    Extracted => \A t \in Tokens(urls[i]) : video_id = t

\* C5 amended: when the URL has such tokens, extract_video_id returns the
\* leftmost of them; for https://youtu.be/abcdefghijk it returns abcdefghijk.
C5_LeftmostTokenReturned ==
    Extracted =>
        /\ TokenStarts(urls[i]) # {} => video_id = LeftmostToken(urls[i])
        /\ urls[i] = UrlShortExample => video_id = TokB

C5_Witness ==
    /\ Extracted
    /\ Cardinality(Tokens(urls[i])) = 2
    /\ video_id = LeftmostToken(urls[i])

\* C6: the message printed for a failed transcript retrieval carries the
\* video identifier and the requested language, whatever the failure kind.
C6_ReportsCarryContext ==
    pc = "no_transcript" =>
        LET m == out[Len(out)]
        IN  /\ {"video_id", "language"} \subseteq DOMAIN m.args
            /\ m.args.video_id = video_id
            /\ m.args.language = language

\* s without the characters \ / * ? : " < > |
RECURSIVE Kept(_)
Kept(s) ==
    IF s = <<>> THEN <<>>
    ELSE IF Head(s) \in {"\\", "/", "*", "?", ":", "\"", "<", ">", "|"}
         THEN Kept(Tail(s))
    ELSE <<Head(s)>> \o Kept(Tail(s))

\* My:Video?
MyVideoTitle == <<"M", "y", ":", "V", "i", "d", "e", "o", "?">>

\* MyVideo - abc12345678.txt
MyVideoFile ==
    <<"M", "y", "V", "i", "d", "e", "o", " ", "-", " ", "a", "b", "c", "1",
      "2", "3", "4", "5", "6", "7", "8", ".", "t", "x", "t">>

\* the part of a path after "<output_dir>/"
NameOf(path) == SubSeq(path, Len(OutputDir) + 2, Len(path))

\* C7: the file name is "<title> - <id>.<ext>" with the characters
\* \ / * ? : " < > | removed from title and identifier, so no file name in
\* the output directory holds one of them; title My:Video?, identifier
\* abc12345678 and extension txt give "MyVideo - abc12345678.txt".
C7_FilenameSafe ==
    /\ \A p \in DOMAIN files :
          /\ SubSeq(p, 1, Len(OutputDir) + 1) = OutputDir \o <<"/">>
          /\ \A k \in 1..Len(NameOf(p)) : NameOf(p)[k] \notin UnsafeChars
    /\ pc = "written" =>
          /\ results[i] \in DOMAIN files
          /\ NameOf(results[i]) =
                Kept(video_title) \o <<" ", "-", " ">> \o Kept(video_id)
                    \o <<".">> \o output_extension
          /\ (video_title = MyVideoTitle /\ video_id = TokC
                /\ output_extension = ExtTxt) =>
                NameOf(results[i]) = MyVideoFile

C7_Witness ==
    /\ pc = "written"
    /\ video_title = MyVideoTitle
    /\ video_id = TokC
    /\ NameOf(results[i]) = MyVideoFile

\* C8: with a format name main accepts (json, text, srt, vtt), a call never
\* ends in the bad-format failure.
C8_ChoicesAreFormats ==
    output_format \in FormatChoices => pc # "bad_format"

\* the order of the steps, and the failure each step can end in
StepEdges ==
    {<<"idle", "start">>,
     <<"start", "id_extracted">>, <<"start", "no_id">>,
     <<"id_extracted", "title_resolved">>,
     <<"title_resolved", "transcript_fetched">>,
     <<"title_resolved", "no_transcript">>,
     <<"transcript_fetched", "formatted">>,
     <<"transcript_fetched", "bad_format">>,
     <<"transcript_fetched", "write_error">>,
     <<"formatted", "written">>, <<"formatted", "write_error">>}
        \cup {<<t, "start">> : t \in TerminalStates}

\* C9: a call goes through the steps in the order id-extracted,
\* title-resolved, transcript-fetched, formatted, ends in one of the five
\* terminal states, and returns the output path exactly when it ends in
\* written, the file then holding the whole transcript.
C9_StepOrder ==
    /\ [][pc' # pc => <<pc, pc'>> \in StepEdges]_vars
    /\ [](pc \in TerminalStates =>
            /\ Len(results) = i
            /\ results[i] # None <=> pc = "written"
            /\ pc = "written" =>
                  /\ results[i] \in DOMAIN files
                  /\ files[results[i]].complete
                  /\ out[Len(out)].args.output_path = results[i])

C9_Witness ==
    /\ i = 2
    /\ pc = "written"
    /\ results[1] = None
    /\ results[2] \in DOMAIN files

\* C10: for each URL of the batch there is at most one call of
\* download_transcript, one title page fetch and one transcript retrieval,
\* and the loop never returns to an earlier URL nor restarts a failed one.
C10_NoRetry ==
    /\ [](\A k \in 1..Len(urls) :
            calls[k] <= 1 /\ title_fetches[k] <= 1
                /\ transcript_fetches[k] <= 1)
    /\ [][i' >= i /\ (pc \in FailureStates /\ pc' # pc => i' = i + 1)]_vars

C10_Witness ==
    /\ main_done
    /\ \E k \in 1..Len(urls) :
          /\ results[k] = None
          /\ title_fetches[k] = 1
          /\ transcript_fetches[k] = 1

\* s without a trailing " - YouTube"
WithoutSuffix(s) ==
    IF Len(s) >= Len(YouTubeSuffix)
          /\ SubSeq(s, Len(s) - Len(YouTubeSuffix) + 1, Len(s)) = YouTubeSuffix
    THEN SubSeq(s, 1, Len(s) - Len(YouTubeSuffix))
    ELSE s

\* My - YouTube Tips
InnerTitle ==
    <<"M", "y", " ", "-", " ", "Y", "o", "u", "T", "u", "b", "e", " ", "T",
      "i", "p", "s">>

\* C11: when the page's <title> element is matched, the title taken from it
\* is its text with the trailing " - YouTube" and the surrounding whitespace
\* removed and nothing else: an earlier " - YouTube" stays.
C11_OnlySuffixStripped ==
    (pc = "title_resolved" /\ response.raises = "no"
        /\ SearchTitle(response.html, 1) # None) =>
        LET text == SearchTitle(response.html, 1)
            expected == Strip(WithoutSuffix(text))
        IN  /\ expected # <<>> => video_title = expected
            /\ response.html = HtmlInner => video_title = InnerTitle

\* the failures a call can end in before it reaches the write step
EarlyFailures == {"no_id", "no_transcript", "bad_format"}

\* C12: the output directory and its files change only in the step that
\* follows a retrieved transcript and a selected formatter, and that step
\* ends in none of no-id, no-transcript, bad-format; a call that ends in one
\* of these three comes from a step before the write and has left the
\* directory and the files as they were.
C12_EarlyFailureLeavesFiles ==
    /\ [][filesystem' # filesystem =>
            /\ pc = "formatted"
            /\ pc' \in {"written", "write_error"}
            /\ transcript = Transcript(video_id, language)
            /\ formatter \in {"JSONFormatter", "TextFormatter", "SRTFormatter"}
            /\ Lower(output_format) \in {"json", "text", "srt"}]_vars
    /\ [][(pc' \in EarlyFailures /\ pc' # pc) =>
            /\ pc \in {"start", "title_resolved", "transcript_fetched"}
            /\ dir_exists' = dir_exists
            /\ files' = files]_vars
    /\ [][pc = "formatted" => pc' \in {"formatted", "written", "write_error"}]_vars
    /\ [](pc \in {"idle", "start", "id_extracted", "title_resolved",
                  "transcript_fetched"} \cup EarlyFailures =>
               (i = 1 => files = <<>>))

C12_Witness ==
    /\ i = 1
    /\ pc = "bad_format"
    /\ transcript_fetches[1] = 1
    /\ ~dir_exists
    /\ files = <<>>

\* the identifier a path names: the 11 characters before its last "."
IdOfPath(path) ==
    LET dot == CHOOSE k \in 1..Len(path) :
                  /\ path[k] = "."
                  /\ \A n \in (k + 1)..Len(path) : path[n] # "."
    IN  SubSeq(path, dot - IdLen, dot - 1)

\* the video identifier of the transcript a file holds
IdOfFile(path) == files[path].transcript[1].video_id

\* C13: an extracted identifier is 11 characters of [0-9A-Za-z_-] and
\* sanitization leaves it as it is; a file's path names the identifier of
\* the transcript in it, whatever the title and the format, so runs for
\* different identifiers write different paths and a file is only ever
\* overwritten by a run for the same identifier.
C13_IdentifierDecidesPath ==
    /\ [](pc \notin {"idle", "start", "no_id"} =>
            /\ Len(video_id) = 11
            /\ \A k \in 1..Len(video_id) : video_id[k] \in IdChars
            /\ Kept(video_id) = video_id)
    /\ [](\A p \in DOMAIN files : IdOfFile(p) = IdOfPath(p))
    /\ [][\A p \in DOMAIN files :
            /\ p \in DOMAIN files'
            /\ files'[p].transcript[1].video_id = IdOfFile(p)]_vars

C13_Witness ==
    /\ main_done
    /\ \E k, n \in 1..Len(results) :
          /\ results[k] # None
          /\ results[n] # None
          /\ IdOfFile(results[k]) # IdOfFile(results[n])
          /\ \A r \in {results[k], results[n]} :
                SubSeq(NameOf(r), 1, 7) = SubSeq(MyVideoFile, 1, 7)

\* what an extractor using the pattern (?:v=|\/)([0-9A-Za-z_-]{11}) alone
\* returns
FirstPatternOnly(url) ==
    IF TokenStarts(url) = {} THEN None ELSE LeftmostToken(url)

\* C14: a URL the short-link pattern matches is matched by the first pattern
\* too, and extract_video_id returns for every URL what an extractor using
\* the first pattern alone returns.
C14_ShortPatternNeverDecides ==
    Extracted =>
        /\ ShortStarts(urls[i]) # {} => TokenStarts(urls[i]) # {}
        /\ video_id = FirstPatternOnly(urls[i])

C14_Witness ==
    /\ Extracted
    /\ ShortStarts(urls[i]) # {}
    /\ video_id = TokB
    /\ video_id = FirstPatternOnly(urls[i])

============================================================================
